---------------------------- MODULE Spec2Model ----------------------------
(***************************************************************************)
(* Model of bofa2ftsru.py: the parse / validate / merge / partition        *)
(* pipeline of convert() over bank statement exports.                      *)
(*                                                                         *)
(* Representation.                                                         *)
(*  - A Decimal is [v |-> value in cents, sc |-> digits after the point].  *)
(*    Every Decimal the program builds from a file has sc = 2; the int 0   *)
(*    that Python's sum() gives for an empty list has sc = 0.  Python      *)
(*    compares the two numerically, so money is compared on v.  Sums and   *)
(*    differences are exact (the amounts drawn are far below the 28 digits *)
(*    of the default Decimal context); the signed zero of Decimal is not   *)
(*    among the inputs drawn.                                              *)
(*  - A datetime.date is [y, m, d].  Years below 1000 are not drawn.       *)
(*  - A text is a sequence of lines, a line a sequence of cells, a cell    *)
(*    [q |-> written in double quotes, t |-> its characters].  Digits,     *)
(*    signs and separators are single characters; a fixed label or a       *)
(*    description is one token (descriptions hold no quote, comma or line  *)
(*    break).  csv.reader yields the t of every cell.                      *)
(*  - A statement is the dict parse_file builds, without its file_name,    *)
(*    which no later step reads.                                           *)
(***************************************************************************)
EXTENDS Integers, Sequences, FiniteSets, TLC

VARIABLES pc, data_list, input_list, idx, years, yi, saved, log

vars == <<pc, data_list, input_list, idx, years, yi, saved, log>>

---------------------------------------------------------------------------
(* Characters and numbers *)

Digits == <<"0", "1", "2", "3", "4", "5", "6", "7", "8", "9">>

IsDigit(c) == \E i \in 1..10 : Digits[i] = c

DigitVal(c) == (CHOOSE i \in 1..10 : Digits[i] = c) - 1

Abs(n) == IF n < 0 THEN -n ELSE n

RECURSIVE NatStr(_)
NatStr(n) ==
    IF n < 10 THEN <<Digits[n + 1]>>
    ELSE NatStr(n \div 10) \o <<Digits[(n % 10) + 1]>>

RECURSIVE NatVal(_)
NatVal(s) ==
    IF s = <<>> THEN 0
    ELSE 10 * NatVal(SubSeq(s, 1, Len(s) - 1)) + DigitVal(s[Len(s)])

Pad2(n) == <<Digits[(n \div 10) + 1], Digits[(n % 10) + 1]>>

Pad4(n) == Pad2(n \div 100) \o Pad2(n % 100)

---------------------------------------------------------------------------
(* Decimal *)

Dec(cents) == [v |-> cents, sc |-> 2]

IntZero == [v |-> 0, sc |-> 0]

MoneyAdd(a, b) == [v |-> a.v + b.v, sc |-> IF a.sc > b.sc THEN a.sc ELSE b.sc]

MoneySub(a, b) == [v |-> a.v - b.v, sc |-> IF a.sc > b.sc THEN a.sc ELSE b.sc]

MoneyEq(a, b) == a.v = b.v

\* str() of a Decimal with two fractional digits, or of an int
MoneyStr(m) ==
    LET sign == IF m.v < 0 THEN <<"-">> ELSE <<>>
        whole == NatStr(Abs(m.v) \div 100)
    IN  IF m.sc = 0 THEN sign \o whole
        ELSE sign \o whole \o <<".">> \o Pad2(Abs(m.v) % 100)

\* sum() of a list: starts from the int 0
RECURSIVE PySum(_)
PySum(s) ==
    IF s = <<>> THEN IntZero
    ELSE MoneyAdd(PySum(SubSeq(s, 1, Len(s) - 1)), s[Len(s)])

---------------------------------------------------------------------------
(* datetime.date *)

Date(y, m, d) == [y |-> y, m |-> m, d |-> d]

DateLT(a, b) ==
    \/ a.y < b.y
    \/ a.y = b.y /\ a.m < b.m
    \/ a.y = b.y /\ a.m = b.m /\ a.d < b.d

DateLE(a, b) == a = b \/ DateLT(a, b)

IsLeap(y) == (y % 4 = 0 /\ y % 100 # 0) \/ y % 400 = 0

DaysInMonth(y, m) ==
    IF m = 2 THEN (IF IsLeap(y) THEN 29 ELSE 28)
    ELSE IF m \in {4, 6, 9, 11} THEN 30 ELSE 31

\* date + timedelta(days=1)
DayAfter(a) ==
    IF a.d < DaysInMonth(a.y, a.m) THEN Date(a.y, a.m, a.d + 1)
    ELSE IF a.m < 12 THEN Date(a.y, a.m + 1, 1)
    ELSE Date(a.y + 1, 1, 1)

to_date(d) == Pad2(d.m) \o <<"/">> \o Pad2(d.d) \o <<"/">> \o Pad4(d.y)

---------------------------------------------------------------------------
(* Field parsers: each yields [ok |-> FALSE] (the assertion fails) or      *)
(* [ok |-> TRUE, val |-> the parsed value].                                *)

Fail == [ok |-> FALSE]

Ok(x) == [ok |-> TRUE, val |-> x]

parser_date(s) ==
    IF /\ Len(s) = 10
       /\ \A i \in {1, 2, 4, 5, 7, 8, 9, 10} : IsDigit(s[i])
       /\ s[3] = "/"
       /\ s[6] = "/"
    THEN LET m == NatVal(SubSeq(s, 1, 2))
             d == NatVal(SubSeq(s, 4, 5))
             y == NatVal(SubSeq(s, 7, 10))
         IN  IF /\ y >= 1
                /\ m \in 1..12
                /\ d >= 1
                /\ d <= DaysInMonth(y, m)
                /\ to_date(Date(y, m, d)) = s
             THEN Ok(Date(y, m, d))
             ELSE Fail
    ELSE Fail

remove_prefix_ok(s, prefix) == Len(s) >= 1 /\ s[1] = prefix

parser_prefixed_date(prefix, s) ==
    IF remove_prefix_ok(s, prefix) THEN parser_date(Tail(s)) ELSE Fail

\* '^-?(0|[1-9][0-9]*)\.\d{2}$'
parser_money(s) ==
    LET neg  == Len(s) >= 1 /\ s[1] = "-"
        body == IF neg THEN Tail(s) ELSE s
        n    == Len(body)
    IN  IF /\ n >= 4
           /\ body[n - 2] = "."
           /\ IsDigit(body[n - 1])
           /\ IsDigit(body[n])
           /\ \A i \in 1..(n - 3) : IsDigit(body[i])
           /\ (body[1] = "0" => n = 4)
        THEN LET cents == 100 * NatVal(SubSeq(body, 1, n - 3))
                          + NatVal(SubSeq(body, n - 1, n))
             IN  Ok(Dec(IF neg THEN -cents ELSE cents))
        ELSE Fail

parser_equal(v, s) == s = v


---------------------------------------------------------------------------
(* Statements.  A record is [date, description, balance_before, amount,    *)
(* running_balance]; a statement is [beginning_date, beginning_balance,    *)
(* total_credits, total_debits, ending_date, ending_balance, records].     *)

Amounts(recs) == [i \in 1..Len(recs) |-> recs[i].amount]

IsCredit(m) == m.v >= 0

IsDebit(m) == m.v < 0

total_credits(data) == PySum(SelectSeq(Amounts(data.records), IsCredit))

total_debits(data) == PySum(SelectSeq(Amounts(data.records), IsDebit))

\* dict equality of two records: Decimal fields compare numerically
RecordEq(a, b) ==
    /\ a.date = b.date
    /\ a.description = b.description
    /\ MoneyEq(a.balance_before, b.balance_before)
    /\ MoneyEq(a.amount, b.amount)
    /\ MoneyEq(a.running_balance, b.running_balance)

\* list equality of two record lists
RecordsEq(r, s) ==
    /\ Len(r) = Len(s)
    /\ \A i \in 1..Len(r) : RecordEq(r[i], s[i])

\* validate without the assertion a['running_balance'] == b['balance_before']
validate_no_chain(data) ==
    LET r == data.records
    IN  /\ DateLT(data.beginning_date, data.ending_date)
        /\ Len(r) > 0
        /\ MoneyEq(data.total_credits, total_credits(data))
        /\ MoneyEq(data.total_debits, total_debits(data))
        /\ \A i \in 1..Len(r) :
              /\ ~DateLT(r[i].date, data.beginning_date)
              /\ ~DateLT(data.ending_date, r[i].date)
        /\ \A i \in 1..Len(r) :
              MoneyEq(MoneyAdd(r[i].balance_before, r[i].amount), r[i].running_balance)
        /\ MoneyEq(r[1].balance_before, data.beginning_balance)
        /\ \A i \in 1..(Len(r) - 1) : DateLE(r[i].date, r[i + 1].date)
        /\ MoneyEq(r[Len(r)].running_balance, data.ending_balance)
        /\ MoneyEq(MoneyAdd(MoneyAdd(data.beginning_balance, data.total_credits),
                            data.total_debits),
                   data.ending_balance)

\* TRUE iff no assertion of validate fires
validate(data) ==
    LET r == data.records
    IN  /\ DateLT(data.beginning_date, data.ending_date)
        /\ Len(r) > 0
        /\ MoneyEq(data.total_credits, total_credits(data))
        /\ MoneyEq(data.total_debits, total_debits(data))
        /\ \A i \in 1..Len(r) :
              /\ ~DateLT(r[i].date, data.beginning_date)
              /\ ~DateLT(data.ending_date, r[i].date)
        /\ \A i \in 1..Len(r) :
              MoneyEq(MoneyAdd(r[i].balance_before, r[i].amount), r[i].running_balance)
        /\ MoneyEq(r[1].balance_before, data.beginning_balance)
        /\ \A i \in 1..(Len(r) - 1) :
              /\ DateLE(r[i].date, r[i + 1].date)
              /\ MoneyEq(r[i].running_balance, r[i + 1].balance_before)
        /\ MoneyEq(r[Len(r)].running_balance, data.ending_balance)
        /\ MoneyEq(MoneyAdd(MoneyAdd(data.beginning_balance, data.total_credits),
                            data.total_debits),
                   data.ending_balance)

---------------------------------------------------------------------------
(* Serializer *)

Plain(t) == [q |-> FALSE, t |-> t]

Quoted(t) == [q |-> TRUE, t |-> t]

BeginPrefix == "Beginning balance as of "

EndPrefix == "Ending balance as of "

RecordLine(r) ==
    << Plain(to_date(r.date)),
       Quoted(<<r.description>>),
       Quoted(MoneyStr(r.amount)),
       Quoted(MoneyStr(r.running_balance)) >>

data_to_str(data) ==
    << << Plain(<<"Description">>), Plain(<<>>), Plain(<<"Summary Amt.">>) >>,
       << Plain(<<BeginPrefix>> \o to_date(data.beginning_date)), Plain(<<>>),
          Quoted(MoneyStr(data.beginning_balance)) >>,
       << Plain(<<"Total credits">>), Plain(<<>>),
          Quoted(MoneyStr(data.total_credits)) >>,
       << Plain(<<"Total debits">>), Plain(<<>>),
          Quoted(MoneyStr(data.total_debits)) >>,
       << Plain(<<EndPrefix>> \o to_date(data.ending_date)), Plain(<<>>),
          Quoted(MoneyStr(data.ending_balance)) >>,
       << >>,
       << Plain(<<"Date">>), Plain(<<"Description">>), Plain(<<"Amount">>),
          Plain(<<"Running Bal.">>) >>,
       << Plain(to_date(data.beginning_date)),
          Plain(<<BeginPrefix>> \o to_date(data.beginning_date)), Plain(<<>>),
          Quoted(MoneyStr(data.beginning_balance)) >> >>
    \o [i \in 1..Len(data.records) |-> RecordLine(data.records[i])]

---------------------------------------------------------------------------
(* Statement parser *)

\* csv.reader: the cells' strings, quotes dropped
CsvRow(line) == [i \in 1..Len(line) |-> line[i].t]

\* one transaction row: parse(s, [parser_date, parser_text, parser_money, parser_money])
RecordRowOk(row) ==
    /\ Len(row) = 4
    /\ parser_date(row[1]).ok
    /\ parser_money(row[3]).ok
    /\ parser_money(row[4]).ok

\* a free-text cell of the inputs is a single token
TextOf(s) == IF Len(s) = 1 THEN s[1] ELSE ""

RecordOfRow(row) ==
    LET amount == parser_money(row[3]).val
        running_balance == parser_money(row[4]).val
    IN  [ date            |-> parser_date(row[1]).val,
          description     |-> TextOf(row[2]),
          balance_before  |-> MoneySub(running_balance, amount),
          amount          |-> amount,
          running_balance |-> running_balance ]

\* [ok |-> FALSE] when an assertion (or a pop from an empty list) fails,
\* [ok |-> TRUE, val |-> the statement] otherwise
parse_file(text) ==
    IF Len(text) < 8 THEN Fail
    ELSE
    LET c  == [i \in 1..Len(text) |-> CsvRow(text[i])]
        bd  == IF Len(c[2]) = 3 THEN parser_prefixed_date(BeginPrefix, c[2][1]) ELSE Fail
        bb  == IF Len(c[2]) = 3 THEN parser_money(c[2][3]) ELSE Fail
        tc  == IF Len(c[3]) = 3 THEN parser_money(c[3][3]) ELSE Fail
        td  == IF Len(c[4]) = 3 THEN parser_money(c[4][3]) ELSE Fail
        ed  == IF Len(c[5]) = 3 THEN parser_prefixed_date(EndPrefix, c[5][1]) ELSE Fail
        eb  == IF Len(c[5]) = 3 THEN parser_money(c[5][3]) ELSE Fail
        bd0 == IF Len(c[8]) = 4 THEN parser_date(c[8][1]) ELSE Fail
        bd1 == IF Len(c[8]) = 4 THEN parser_prefixed_date(BeginPrefix, c[8][2]) ELSE Fail
        bb0 == IF Len(c[8]) = 4 THEN parser_money(c[8][4]) ELSE Fail
        rows == SubSeq(c, 9, Len(c))
    IN  IF /\ Len(c[1]) = 3
           /\ parser_equal(<<"Description">>, c[1][1])
           /\ parser_equal(<<>>, c[1][2])
           /\ parser_equal(<<"Summary Amt.">>, c[1][3])
           /\ bd.ok /\ parser_equal(<<>>, c[2][2]) /\ bb.ok
           /\ tc.ok /\ parser_equal(<<"Total credits">>, c[3][1])
                    /\ parser_equal(<<>>, c[3][2])
           /\ td.ok /\ parser_equal(<<"Total debits">>, c[4][1])
                    /\ parser_equal(<<>>, c[4][2])
           /\ ed.ok /\ parser_equal(<<>>, c[5][2]) /\ eb.ok
           /\ Len(c[6]) = 0
           /\ Len(c[7]) = 4
           /\ parser_equal(<<"Date">>, c[7][1])
           /\ parser_equal(<<"Description">>, c[7][2])
           /\ parser_equal(<<"Amount">>, c[7][3])
           /\ parser_equal(<<"Running Bal.">>, c[7][4])
           /\ bd0.ok /\ bd1.ok /\ parser_equal(<<>>, c[8][3]) /\ bb0.ok
           /\ bd.val = bd0.val /\ bd.val = bd1.val
           /\ MoneyEq(bb.val, bb0.val)
           /\ \A i \in 1..Len(rows) : RecordRowOk(rows[i])
        THEN LET result ==
                   [ beginning_date    |-> bd.val,
                     beginning_balance |-> bb.val,
                     total_credits     |-> tc.val,
                     total_debits      |-> td.val,
                     ending_date       |-> ed.val,
                     ending_balance    |-> eb.val,
                     records           |-> [i \in 1..Len(rows) |-> RecordOfRow(rows[i])] ]
             IN  IF validate(result) /\ data_to_str(result) = text
                 THEN Ok(result)
                 ELSE Fail
        ELSE Fail

---------------------------------------------------------------------------
(* Merge and partition *)

\* normalize_data taking the ending balance from the first record
normalize_data_first(d) ==
    [ beginning_date    |-> d.beginning_date,
      ending_date       |-> d.ending_date,
      records           |-> d.records,
      beginning_balance |-> d.records[1].balance_before,
      ending_balance    |-> d.records[1].running_balance,
      total_credits     |-> total_credits(d),
      total_debits      |-> total_debits(d) ]

\* requires a non-empty record list (records[0] raises IndexError otherwise)
normalize_data(d) ==
    [ beginning_date    |-> d.beginning_date,
      ending_date       |-> d.ending_date,
      records           |-> d.records,
      beginning_balance |-> d.records[1].balance_before,
      ending_balance    |-> d.records[Len(d.records)].running_balance,
      total_credits     |-> total_credits(d),
      total_debits      |-> total_debits(d) ]

\* merge_data keeping the records of a dated on or before b.beginning_date
merge_data_dup(a, b) ==
    LET OnOrAfter(e) == ~DateLT(e.date, b.beginning_date)
        UpTo(e)      == DateLE(e.date, b.beginning_date)
        shared_a == SelectSeq(a.records, OnOrAfter)
        n        == IF Len(shared_a) < Len(b.records) THEN Len(shared_a)
                    ELSE Len(b.records)
        shared_b == SubSeq(b.records, 1, n)
        records  == SelectSeq(a.records, UpTo) \o b.records
    IN  IF shared_a # <<>> /\ ~RecordsEq(shared_a, shared_b) THEN Fail
        ELSE IF records = <<>> THEN Fail
        ELSE Ok(normalize_data([ beginning_date |-> a.beginning_date,
                                 ending_date    |-> b.ending_date,
                                 records        |-> records ]))

\* merge_data comparing only the dates of the overlap
merge_data_dates_only(a, b) ==
    LET OnOrAfter(e) == ~DateLT(e.date, b.beginning_date)
        Before(e)    == DateLT(e.date, b.beginning_date)
        shared_a == SelectSeq(a.records, OnOrAfter)
        n        == IF Len(shared_a) < Len(b.records) THEN Len(shared_a)
                    ELSE Len(b.records)
        shared_b == SubSeq(b.records, 1, n)
        records  == SelectSeq(a.records, Before) \o b.records
    IN  IF /\ shared_a # <<>>
           /\ ~ /\ Len(shared_a) = Len(shared_b)
                /\ \A i \in 1..Len(shared_a) : shared_a[i].date = shared_b[i].date
        THEN Fail
        ELSE IF records = <<>> THEN Fail
        ELSE Ok(normalize_data([ beginning_date |-> a.beginning_date,
                                 ending_date    |-> b.ending_date,
                                 records        |-> records ]))

\* [ok |-> FALSE] when the assertion fires (a is left as it was) or the
\* merged list is empty (IndexError in normalize_data),
\* [ok |-> TRUE, val |-> a as updated] otherwise
merge_data(a, b) ==
    LET OnOrAfter(e) == ~DateLT(e.date, b.beginning_date)
        Before(e)    == DateLT(e.date, b.beginning_date)
        shared_a == SelectSeq(a.records, OnOrAfter)
        n        == IF Len(shared_a) < Len(b.records) THEN Len(shared_a)
                    ELSE Len(b.records)
        shared_b == SubSeq(b.records, 1, n)
        records  == SelectSeq(a.records, Before) \o b.records
    IN  IF shared_a # <<>> /\ ~RecordsEq(shared_a, shared_b) THEN Fail
        ELSE IF records = <<>> THEN Fail
        ELSE Ok(normalize_data([ beginning_date |-> a.beginning_date,
                                 ending_date    |-> b.ending_date,
                                 records        |-> records ]))

Year(d) == d.y

\* filter_year selecting the records up to the year
filter_year_upto(data, year) ==
    LET UpToYear(e) == Year(e.date) <= year
    IN  normalize_data([ beginning_date |-> Date(year, 1, 1),
                         ending_date    |-> Date(year, 12, 31),
                         records        |-> SelectSeq(data.records, UpToYear) ])

\* filter_year selecting the records from the year on
filter_year_from(data, year) ==
    LET InYear(e) == Year(e.date) >= year
    IN  normalize_data([ beginning_date |-> Date(year, 1, 1),
                         ending_date    |-> Date(year, 12, 31),
                         records        |-> SelectSeq(data.records, InYear) ])

\* requires a record of that year (normalize_data)
filter_year(data, year) ==
    LET InYear(e) == Year(e.date) = year
    IN  normalize_data([ beginning_date |-> Date(year, 1, 1),
                         ending_date    |-> Date(year, 12, 31),
                         records        |-> SelectSeq(data.records, InYear) ])

BeginDates(dl) == {dl[i].beginning_date : i \in 1..Len(dl)}

\* insertion of d into a list sorted by beginning_date, after equal keys
RECURSIVE Insert(_, _)
Insert(d, s) ==
    IF s = <<>> THEN <<d>>
    ELSE IF DateLT(d.beginning_date, s[1].beginning_date) THEN <<d>> \o s
    ELSE <<s[1]>> \o Insert(d, Tail(s))

\* sorted(data_list, key=beginning_date)
RECURSIVE Sorted(_)
Sorted(dl) ==
    IF dl = <<>> THEN <<>>
    ELSE Insert(dl[Len(dl)], Sorted(SubSeq(dl, 1, Len(dl) - 1)))

\* the assertion of sort_data_list
sort_data_list_ok(dl) == Cardinality(BeginDates(dl)) = Len(dl)

\* validate_data_list without the assertion on ending_date
validate_data_list_begin_only(dl) ==
    \A i \in 1..(Len(dl) - 1) :
        DateLT(dl[i].beginning_date, dl[i + 1].beginning_date)

\* the assertions of validate_data_list, over a non-empty list
validate_data_list_ok(dl) ==
    \A i \in 1..(Len(dl) - 1) :
        /\ DateLT(dl[i].beginning_date, dl[i + 1].beginning_date)
        /\ DateLT(dl[i].ending_date, dl[i + 1].ending_date)

\* sorted(list(set(years of the records)))
RECURSIVE SortedYears(_)
SortedYears(S) ==
    IF S = {} THEN <<>>
    ELSE LET m == CHOOSE x \in S : \A z \in S : x <= z
         IN  <<m>> \o SortedYears(S \ {m})

YearsOf(data) == SortedYears({Year(data.records[i].date) : i \in 1..Len(data.records)})

---------------------------------------------------------------------------
(* Inputs.  A transaction is [date, description, amount in cents].  A      *)
(* well-formed statement is built from a period, an opening balance and a  *)
(* transaction list by running the balance through the list; its text is   *)
(* what data_to_str prints for it.                                         *)

Tx(date, description, cents) ==
    [date |-> date, description |-> description, amount |-> cents]

RECURSIVE SumCents(_, _)
SumCents(txs, n) == IF n = 0 THEN 0 ELSE SumCents(txs, n - 1) + txs[n].amount

PosPart(n) == IF n >= 0 THEN n ELSE 0

NegPart(n) == IF n < 0 THEN n ELSE 0

RECURSIVE SumPos(_, _)
SumPos(txs, n) == IF n = 0 THEN 0 ELSE SumPos(txs, n - 1) + PosPart(txs[n].amount)

RECURSIVE SumNeg(_, _)
SumNeg(txs, n) == IF n = 0 THEN 0 ELSE SumNeg(txs, n - 1) + NegPart(txs[n].amount)

MkStatement(bd, ed, bb, txs) ==
    [ beginning_date    |-> bd,
      beginning_balance |-> Dec(bb),
      total_credits     |-> Dec(SumPos(txs, Len(txs))),
      total_debits      |-> Dec(SumNeg(txs, Len(txs))),
      ending_date       |-> ed,
      ending_balance    |-> Dec(bb + SumCents(txs, Len(txs))),
      records           |->
          [i \in 1..Len(txs) |->
              [ date            |-> txs[i].date,
                description     |-> txs[i].description,
                balance_before  |-> Dec(bb + SumCents(txs, i - 1)),
                amount          |-> Dec(txs[i].amount),
                running_balance |-> Dec(bb + SumCents(txs, i)) ]] ]

Periods(dates) == {p \in dates \X dates : DateLT(p[1], p[2])}

TxLists(choices, maxn) == UNION {[1..n -> choices] : n \in 0..maxn}

\* every statement over the given dates, kinds of transaction and opening
\* balances, valid or not (unsorted, out of period, empty)
StatementsOver(dates, kinds, bbs, maxn) ==
    { MkStatement(p[1], p[2], bb, txs) :
        p \in Periods(dates), bb \in bbs,
        txs \in TxLists({Tx(d, k.description, k.amount) : d \in dates, k \in kinds}, maxn) }

(* The statement files of the pipeline: exports of an account history over *)
(* every period of five consecutive days around a year's end.  HistoryB is *)
(* a conflicting revision of HistoryA.                                     *)

D1 == Date(2019, 12, 30)
D2 == Date(2019, 12, 31)
D3 == Date(2020, 1, 1)
D4 == Date(2020, 1, 2)
D5 == Date(2020, 1, 3)

DateSet == {D1, D2, D3, D4, D5}

HistoryA == << Tx(D1, "x", 100), Tx(D2, "y", -100), Tx(D5, "x", 100) >>

HistoryB == << Tx(D1, "x", 100), Tx(D2, "y", -50), Tx(D3, "z", 0), Tx(D5, "x", 100) >>

Histories == {HistoryA, HistoryB}

\* the statement of period [bd, ed] of an account with history h opened at 0.00
Export(h, bd, ed) ==
    LET Earlier(t) == DateLT(t.date, bd)
        Within(t)  == ~DateLT(t.date, bd) /\ ~DateLT(ed, t.date)
        before == SelectSeq(h, Earlier)
    IN  MkStatement(bd, ed, SumCents(before, Len(before)), SelectSeq(h, Within))

ExportFiles == {data_to_str(Export(h, p[1], p[2])) : h \in Histories, p \in Periods(DateSet)}

\* files an export tool would not produce
BaseText == data_to_str(Export(HistoryA, D1, D2))

Unquoted == [BaseText EXCEPT ![3][3].q = FALSE]

BadMoney == [BaseText EXCEPT ![2][3].t = <<"1", ".", "0">>]

WrongTotal == [BaseText EXCEPT ![3][3].t = <<"2", ".", "0", "0">>]

Truncated == SubSeq(BaseText, 1, 7)

InputFiles == ExportFiles \cup {Unquoted, BadMoney, WrongTotal, Truncated}

\* parse_file of every input file
ParseTable == [t \in InputFiles |-> parse_file(t)]

---------------------------------------------------------------------------
(* convert().  pc is the statement convert is at; data_list is the list of *)
(* parsed statements, whose first element is the accumulator of            *)
(* reduce(merge_data, data_list) (merge_data updates it in place and       *)
(* returns it, so `data` is data_list[1]); input_list keeps the statements *)
(* as sorted, before any merge; years and yi are the loop over the years;  *)
(* saved is the list of files written, each with the statement passed to   *)
(* save; log is the order of the calls of merge_data, validate and         *)
(* filter_year made after parsing.                                         *)

MaxFiles == 3

Data == data_list[1]

Init ==
    /\ pc = "parse"
    /\ data_list = <<>>
    /\ input_list = <<>>
    /\ idx = 0
    /\ years = <<>>
    /\ yi = 0
    /\ saved = <<>>
    /\ log = <<>>

\* map(parse_file, file_list), one file: glob may list any file next
ParseFile ==
    /\ pc = "parse"
    /\ Len(data_list) < MaxFiles
    /\ \E t \in InputFiles :
          LET r == ParseTable[t]
          IN  IF r.ok
              THEN /\ data_list' = Append(data_list, r.val)
                   /\ pc' = "parse"
              ELSE /\ data_list' = data_list
                   /\ pc' = "failed"
    /\ UNCHANGED <<input_list, idx, years, yi, saved, log>>

\* sort_data_list, once every file is parsed
SortDataList ==
    /\ pc = "parse"
    /\ IF sort_data_list_ok(data_list)
       THEN /\ data_list' = Sorted(data_list)
            /\ input_list' = Sorted(data_list)
            /\ pc' = "validate_list"
       ELSE /\ UNCHANGED <<data_list, input_list>>
            /\ pc' = "failed"
    /\ UNCHANGED <<idx, years, yi, saved, log>>

\* validate_data_list; reduce() of an empty list raises TypeError
ValidateDataList ==
    /\ pc = "validate_list"
    /\ IF Len(data_list) > 0 /\ validate_data_list_ok(data_list)
       THEN /\ pc' = IF Len(data_list) >= 2 THEN "merge" ELSE "validate"
            /\ idx' = 2
       ELSE /\ pc' = "failed"
            /\ idx' = idx
    /\ UNCHANGED <<data_list, input_list, years, yi, saved, log>>

\* one step of reduce(merge_data, data_list)
MergeData ==
    /\ pc = "merge"
    /\ LET r == merge_data(data_list[1], data_list[idx])
       IN  IF r.ok
           THEN /\ data_list' = [data_list EXCEPT ![1] = r.val]
                /\ idx' = idx + 1
                /\ pc' = IF idx = Len(data_list) THEN "validate" ELSE "merge"
           ELSE /\ UNCHANGED <<data_list, idx>>
                /\ pc' = "failed"
    /\ log' = Append(log, "merge_data")
    /\ UNCHANGED <<input_list, years, yi, saved>>

\* convert() without the call of validate(data)
ValidateMergedSkipped ==
    /\ pc = "validate"
    /\ years' = YearsOf(Data)
    /\ yi' = 1
    /\ pc' = "year"
    /\ UNCHANGED <<data_list, input_list, idx, saved, log>>

\* validate(data) and the list of years
ValidateMerged ==
    /\ pc = "validate"
    /\ IF validate(Data)
       THEN /\ years' = YearsOf(Data)
            /\ yi' = 1
            /\ pc' = "year"
       ELSE /\ UNCHANGED <<years, yi>>
            /\ pc' = "failed"
    /\ log' = Append(log, "validate")
    /\ UNCHANGED <<data_list, input_list, idx, saved>>

HasYear(data, year) == \E i \in 1..Len(data.records) : Year(data.records[i].date) = year

\* one iteration of the loop over years: filter_year, validate, save
ConvertYear ==
    /\ pc = "year"
    /\ yi <= Len(years)
    /\ LET year == years[yi]
       IN  IF HasYear(Data, year) /\ validate(filter_year(Data, year))
           THEN /\ saved' = Append(saved, [ name |-> year,
                                            data |-> filter_year(Data, year),
                                            text |-> data_to_str(filter_year(Data, year)) ])
                /\ yi' = yi + 1
                /\ pc' = IF yi = Len(years) THEN "done" ELSE "year"
           ELSE /\ UNCHANGED <<saved, yi>>
                /\ pc' = "failed"
    /\ log' = Append(log, "filter_year")
    /\ UNCHANGED <<data_list, input_list, idx, years>>

Next ==
    \/ ParseFile
    \/ SortDataList
    \/ ValidateDataList
    \/ MergeData
    \/ ValidateMerged
    \/ ConvertYear

Spec == Init /\ [][Next]_vars

---------------------------------------------------------------------------
(* merge_data on its own: every pair of valid statements a, b over three   *)
(* days with a.beginning_date < b.beginning_date, as the first step of     *)
(* reduce(merge_data, [a, b]).                                             *)

MaxRecsMerge == 2

MergeDates == {D1, D2, D3}

MergeKinds == { [description |-> "x", amount |-> 100],
                [description |-> "y", amount |-> 100],
                [description |-> "x", amount |-> 0] }

MergeBalances == {0, 100}

MergeStatements ==
    {s \in StatementsOver(MergeDates, MergeKinds, MergeBalances, MaxRecsMerge) : validate(s)}

MergePairs ==
    {p \in MergeStatements \X MergeStatements :
        DateLT(p[1].beginning_date, p[2].beginning_date)}

InitMerge ==
    /\ pc = "merge"
    /\ data_list \in MergePairs
    /\ input_list = data_list
    /\ idx = 2
    /\ years = <<>>
    /\ yi = 0
    /\ saved = <<>>
    /\ log = <<>>

NextMerge == MergeData

SpecMerge == InitMerge /\ [][NextMerge]_vars

---------------------------------------------------------------------------
(* validate and the loop over years on their own: every statement, valid   *)
(* or not, over four days at the ends of three years, as the statement     *)
(* reduce() returned.                                                      *)

MaxRecsPart == 3

PartDates == {Date(2019, 12, 31), Date(2020, 1, 1), Date(2020, 12, 31), Date(2021, 1, 1)}

PartKinds == { [description |-> "x", amount |-> 100],
               [description |-> "x", amount |-> 0],
               [description |-> "x", amount |-> -100] }

PartBalances == {0}

PartStatements == StatementsOver(PartDates, PartKinds, PartBalances, MaxRecsPart)

InitPart ==
    /\ pc = "validate"
    /\ data_list \in {<<s>> : s \in PartStatements}
    /\ input_list = data_list
    /\ idx = 2
    /\ years = <<>>
    /\ yi = 0
    /\ saved = <<>>
    /\ log = <<>>

NextPart == ValidateMerged \/ ConvertYear

SpecPart == InitPart /\ [][NextPart]_vars

---------------------------------------------------------------------------
(* Properties *)

Min(m, n) == IF m < n THEN m ELSE n

Accepted == pc \in {"year", "done"}

\* the records of a dated on or after b.beginning_date
WindowOfA(a, b) ==
    LET In(e) == DateLE(b.beginning_date, e.date) IN SelectSeq(a.records, In)

\* the records of b dated on or before a.ending_date
WindowOfB(a, b) ==
    LET In(e) == DateLE(e.date, a.ending_date) IN SelectSeq(b.records, In)

\* the records of a dated strictly before b.beginning_date
BeforeOf(a, b) ==
    LET Out(e) == DateLT(e.date, b.beginning_date) IN SelectSeq(a.records, Out)

\* the first merge_data step of a run has been taken
FirstMergeTaken == Len(input_list) >= 2 /\ Len(log) >= 1 /\ log[1] = "merge_data"

\* b's leading records reprint the records of a in the overlap window
ExactOverlap(a, b) ==
    LET w == WindowOfA(a, b)
    IN  /\ Len(w) <= Len(b.records)
        /\ RecordsEq(w, SubSeq(b.records, 1, Len(w)))

RECURSIVE ConcatParts(_, _, _)
ConcatParts(data, ys, n) ==
    IF n = 0 THEN <<>>
    ELSE ConcatParts(data, ys, n - 1) \o filter_year(data, ys[n]).records

\* s is a contiguous run of r
IsRun(s, r) ==
    \E k \in 0..(Len(r) - Len(s)) : \A i \in 1..Len(s) : s[i] = r[k + i]

Gap(a, b) == DateLT(DayAfter(a.ending_date), b.beginning_date)

\* a == b on two statements
StatementEq(x, y) ==
    /\ x.beginning_date = y.beginning_date
    /\ x.ending_date = y.ending_date
    /\ MoneyEq(x.beginning_balance, y.beginning_balance)
    /\ MoneyEq(x.ending_balance, y.ending_balance)
    /\ MoneyEq(x.total_credits, y.total_credits)
    /\ MoneyEq(x.total_debits, y.total_debits)
    /\ RecordsEq(x.records, y.records)

(* C1: in a run of convert that fails, whatever the assertion that fires,  *)
(* no per-year file has been written.                                      *)
C1_NoPartialOutput == pc = "failed" => saved = <<>>

\* a run that fails after the statements were merged
C1_Witness ==
    /\ pc = "failed"
    /\ Len(log) >= 2
    /\ log[Len(log)] = "validate"

(* C2: once the merged statement has passed validate, the years are the    *)
(* distinct years of its records in ascending order, the record lists of   *)
(* filter_year over these years concatenate to the merged record list, and *)
(* every record of a partition is dated in the partition's year; the files *)
(* written are these partitions, in that order.                            *)
C2_PartitionComplete ==
    Accepted =>
        /\ \A i \in 1..(Len(years) - 1) : years[i] < years[i + 1]
        /\ {years[i] : i \in 1..Len(years)}
             = {Data.records[j].date.y : j \in 1..Len(Data.records)}
        /\ RecordsEq(ConcatParts(Data, years, Len(years)), Data.records)
        /\ \A i \in 1..Len(years) :
              LET part == filter_year(Data, years[i]).records
              IN  \A j \in 1..Len(part) : part[j].date.y = years[i]
        /\ \A i \in 1..Len(saved) :
              /\ saved[i].name = years[i]
              /\ RecordsEq(saved[i].data.records, filter_year(Data, years[i]).records)

\* a finished run whose first partition ends on Dec 31 and whose second
\* starts on Jan 1 of the next year
C2_Witness ==
    /\ pc = "done"
    /\ Len(saved) >= 2
    /\ LET p == saved[1].data.records
           q == saved[2].data.records
       IN  /\ p[Len(p)].date = Date(saved[1].name, 12, 31)
           /\ q[1].date = Date(saved[1].name + 1, 1, 1)

(* C3: for valid a and b with a.beginning_date < b.beginning_date whose     *)
(* overlap is reprinted exactly at the head of b, merge_data succeeds, the *)
(* merged records are the records of a before b.beginning_date followed by *)
(* all of b, their number is len(a) + len(b) - k, and the merged records   *)
(* dated on or after b.beginning_date are b's records and nothing more.    *)
C3_ExactOverlapMerge ==
    LET a == input_list[1]
        b == input_list[2]
        k == Len(WindowOfA(a, b))
    IN  (FirstMergeTaken /\ Len(log) = 1 /\ ExactOverlap(a, b)) =>
            /\ pc # "failed"
            /\ RecordsEq(Data.records, BeforeOf(a, b) \o b.records)
            /\ Len(Data.records) = Len(a.records) + Len(b.records) - k
            /\ RecordsEq(WindowOfA(Data, b), b.records)
            /\ Data.ending_date = b.ending_date

\* a merge over an overlap of at least one record that keeps a record of a
C3_Witness ==
    LET a == input_list[1]
        b == input_list[2]
    IN  /\ FirstMergeTaken
        /\ Len(log) = 1
        /\ pc # "failed"
        /\ Len(WindowOfA(a, b)) >= 1
        /\ Len(BeforeOf(a, b)) >= 1
        /\ Len(b.records) > Len(WindowOfA(a, b))

C5_ValidatedAfterEveryMerge ==
    \A i \in 2..Len(log) : log[i] = "merge_data" => log[i - 1] = "validate"

(* C5 as amended: validate is called once the whole fold is done, after    *)
(* the last of the len(data_list) - 1 merge_data steps and before any      *)
(* filter_year; the statement being partitioned passes validate.           *)
C5_ValidatedAfterFold ==
    /\ \A i \in 1..Len(log) :
          /\ log[i] = "validate" =>
                /\ i = Len(input_list)
                /\ \A j \in 1..(i - 1) : log[j] = "merge_data"
          /\ log[i] = "filter_year" =>
                /\ i > Len(input_list)
                /\ log[Len(input_list)] = "validate"
    /\ Accepted => validate(Data)

\* a run over three statements that reaches the partitioning
C5_Witness == Len(input_list) = 3 /\ Accepted /\ Len(log) >= 3

(* C6 as claimed: when convert reaches the partitioning, no two adjacent   *)
(* statements of the sorted list leave a gap between their periods.        *)
C6_NoGapAccepted ==
    Accepted =>
        \A i \in 1..(Len(input_list) - 1) : ~Gap(input_list[i], input_list[i + 1])

(* C6 as amended: when convert reaches the partitioning, every adjacent    *)
(* pair of the sorted list has strictly increasing beginning and ending    *)
(* dates, the balance chain of the merged records is continuous, and      *)
(* across a gap between two adjacent periods the balance is carried over   *)
(* unchanged (b.beginning_balance == a.ending_balance).                    *)
C6_OrderedAndChained ==
    Accepted =>
        /\ \A i \in 1..(Len(input_list) - 1) :
              LET a == input_list[i]
                  b == input_list[i + 1]
              IN  /\ DateLT(a.beginning_date, b.beginning_date)
                  /\ DateLT(a.ending_date, b.ending_date)
                  /\ Gap(a, b) => MoneyEq(b.beginning_balance, a.ending_balance)
        /\ \A j \in 1..(Len(Data.records) - 1) :
              MoneyEq(Data.records[j].running_balance, Data.records[j + 1].balance_before)

\* an accepted run with a gap between two adjacent periods
C6_Witness ==
    /\ pc = "done"
    /\ \E i \in 1..(Len(input_list) - 1) : Gap(input_list[i], input_list[i + 1])

(* C7: the text written for a per-year statement parses back to a          *)
(* statement equal to it.                                                  *)
C7_RoundTrip ==
    \A i \in 1..Len(saved) :
        LET r == parse_file(saved[i].text)
        IN  r.ok /\ StatementEq(r.val, saved[i].data)

(* C8: convert reaches the first merge_data step only with beginning_date  *)
(* and ending_date strictly increasing across every pair of the sorted     *)
(* list, so no period contains another; a list of statements two of which  *)
(* share a beginning_date gets no further than sort_data_list.             *)
C8_StrictlyIncreasing ==
    /\ (pc = "merge" \/ Len(log) >= 1) =>
          \A i \in 1..Len(input_list) : \A j \in (i + 1)..Len(input_list) :
              /\ DateLT(input_list[i].beginning_date, input_list[j].beginning_date)
              /\ DateLT(input_list[i].ending_date, input_list[j].ending_date)
    /\ (pc = "merge" \/ Len(log) >= 1) =>
          \A i \in 1..Len(input_list) : \A j \in 1..Len(input_list) :
              i # j =>
                  ~ /\ DateLE(input_list[i].beginning_date, input_list[j].beginning_date)
                    /\ DateLE(input_list[j].ending_date, input_list[i].ending_date)
    /\ Cardinality(BeginDates(data_list)) < Len(data_list) => pc \in {"parse", "failed"}

\* three statements at the first merge_data step
C8_Witness == pc = "merge" /\ idx = 2 /\ Len(input_list) = 3

(* C9: once the merged statement has passed validate, for every year of    *)
(* its records filter_year gives a non-empty contiguous run of the merged  *)
(* records that passes validate, and the loop over the years never fails.  *)
C9_YearAlwaysValid ==
    /\ Accepted =>
          \A i \in 1..Len(years) :
              LET d == filter_year(Data, years[i])
              IN  /\ Len(d.records) > 0
                  /\ IsRun(d.records, Data.records)
                  /\ validate(d)
    /\ ~(pc = "failed" /\ Len(log) >= 1 /\ log[Len(log)] = "filter_year")

\* a finished run over two years, one of them with several records
C9_Witness ==
    /\ pc = "done"
    /\ Len(saved) >= 2
    /\ \E i \in 1..Len(saved) : Len(saved[i].data.records) >= 2

(* C10: whenever merge_data succeeds, the records of b dated on or before  *)
(* a.ending_date are exactly the records of a dated on or after            *)
(* b.beginning_date.                                                       *)
C10_WindowsAgree ==
    (FirstMergeTaken /\ Len(log) = 1 /\ pc # "failed") =>
        RecordsEq(WindowOfB(input_list[1], input_list[2]),
                  WindowOfA(input_list[1], input_list[2]))

===========================================================================
